---------------------------- MODULE Spec2Model ----------------------------
(***************************************************************************)
(* Model of seq2seq/decoders/conv_decoder.py: the ConvDecoder graph module *)
(* (constructor, _build, the teacher-forced training path, and the methods *)
(* of the inference path).                                                 *)
(*                                                                         *)
(* Reading of the file.  The file is a draft and does not compile as it   *)
(* stands: `def create_init_state` (l.227) lacks its colon, the inference  *)
(* loop is written `WHILE:` (l.278) and l.291 is mis-indented.  The        *)
(* methods that parse (_build, conv_decoder_train, infer_conv_block,       *)
(* next_inputs, step) are modelled as Python runs their bodies:            *)
(*   - a name or attribute the file never binds raises NameError or        *)
(*     AttributeError where it is read;                                    *)
(*   - a call of a list (l.223) raises TypeError, a lookup of a missing    *)
(*     key (l.311) KeyError.                                               *)
(* create_init_state and conv_decoder_infer have no runnable text and no   *)
(* run reaches them: in INFER mode _build raises at l.311 before it calls  *)
(* conv_decoder_infer.  The constructor takes overrides of the keys of     *)
(* default_params only.                                                    *)
(* Tensors are arrays of numbers; an embedding is one number (embedding    *)
(* dimension 1).  Label and position embeddings are integers; what dropout *)
(* has scaled is a fraction <<numerator, denominator>> in lowest terms, so *)
(* that the 1/keep_prob scale (5/4) is exact.                              *)
(***************************************************************************)
EXTENDS Integers, Sequences, FiniteSets, TLC

VARIABLES
    mode,                    \* self.mode
    params,                  \* self.params
    reverse_scores_lengths,  \* self.reverse_scores_lengths (<<>> is None)
    called,                  \* the method called on the decoder, "" before
    pc,                      \* position in the call
    err,                     \* the exception raised, "" if none
    errLine,                 \* the source line that raised, 0 if none
    ran,                     \* which decoding paths _build has entered
    args,                    \* the arguments of the call
    maximum_iterations,      \* local of _build (<<>> is None)
    labels,                  \* local `labels` of conv_decoder_train
    inputs,                  \* local `inputs` of conv_decoder_train
    logits,                  \* local `logits` of conv_decoder_train
    outputs,                 \* <<ConvDecoderOutput>> once built, else <<>>
    result,                  \* what _build returned, <<>> before
    finished,                \* what next_inputs returned, first component
    next_inputs              \* what next_inputs returned, second component

vars == <<mode, params, reverse_scores_lengths, called, pc, err, errLine, ran,
          args, maximum_iterations, labels, inputs, logits, outputs, result,
          finished, next_inputs>>

-----------------------------------------------------------------------------
(* Sizes of the inputs the model explores. *)
vocab_size == 3
beam_size == 2
BatchSize == 1
MaxTime == 2

Vocab == 0 .. (vocab_size - 1)
Beams == 1 .. beam_size
EncVals == {0, 1}
\* The label embeddings a batch row may hold.
LabelRows == {[t \in 1 .. MaxTime |-> 4 * ((k + t) % 2)] : k \in 0 .. 1}

TRAIN == "train"
EVAL == "eval"
INFER == "infer"
ModeKeys == {TRAIN, EVAL, INFER}

-----------------------------------------------------------------------------
(* Parameters. *)
default_params ==
    ("cnn.layers" :> 3) @@
    ("embedding_dropout_keep_prob" :> <<4, 5>>) @@
    ("nhid_dropout_keep_prob" :> <<4, 5>>) @@
    ("out_dropout_keep_prob" :> <<4, 5>>) @@
    ("position_embeddings.enable" :> TRUE) @@
    ("position_embeddings.combiner_fn" :> "tensorflow.add") @@
    ("position_embeddings.num_positions" :> 100)

\* The overrides a caller may pass to the constructor: values for keys of
\* default_params.
UserParams ==
    { ("position_embeddings.enable" :> e) @@
      ("position_embeddings.combiner_fn" :> c) @@
      ("cnn.layers" :> n) :
        e \in BOOLEAN,
        c \in {"tensorflow.add", "tensorflow.multiply"},
        n \in {0, 3} }

-----------------------------------------------------------------------------
(* Tensor helpers (framework primitives). *)

\* locate("tensorflow.add") / locate("tensorflow.multiply"), on one element.
Combine(fn, a, b) == IF fn = "tensorflow.add" THEN a + b ELSE a * b

\* Fractions <<numerator, denominator>> of naturals, in lowest terms.
RECURSIVE GCD(_, _)
GCD(a, b) == IF b = 0 THEN a ELSE GCD(b, a % b)
Norm(n, d) == IF n = 0 THEN <<0, 1>> ELSE <<n \div GCD(n, d), d \div GCD(n, d)>>
Rat(i) == <<i, 1>>

\* tf.contrib.layers.dropout on one element x (a fraction), keep_prob being
\* the fraction <<4, 5>>: identity unless is_training; otherwise the element
\* is kept and scaled by 1/keep_prob, or zeroed.
Dropout(x, keep_prob, is_training, keep) ==
    IF ~is_training THEN x
    ELSE IF keep THEN Norm(x[1] * keep_prob[2], x[2] * keep_prob[1]) ELSE <<0, 1>>

\* The keep masks dropout may draw for a [batch, time] tensor.
Masks(x, is_training) ==
    IF is_training
    THEN [1 .. Len(x) -> [1 .. (IF Len(x) = 0 THEN 0 ELSE Len(x[1])) -> BOOLEAN]]
    ELSE {[b \in 1 .. Len(x) |-> [t \in 1 .. Len(x[b]) |-> TRUE]]}

RECURSIVE SumTo(_, _)
SumTo(x, t) == IF t = 0 THEN 0 ELSE x[t] + SumTo(x, t - 1)

\* ConvEncoderUtils.linear_mapping, one per variable scope (its dropout
\* argument scales the initial weights only).
linear_mapping_before_cnn(x, dropout) == (x[1] + x[2]) % 5
linear_mapping_after_cnn(x) == x
logits_before_softmax(h, dropout) ==
    [v \in 1 .. vocab_size |-> ((h[1] + h[2]) * (v - 1)) % 7]

\* ConvEncoderUtils.conv_decoder_stack: causal, position t reads the layer
\* input up to t, the embedded input at t and the encoder output.
conv_decoder_stack(x, enc, next_layer, t) ==
    Rat(4 * ((SumTo(next_layer, t) + x[t][1] + x[t][2] + enc + t) % 5))

\* _transpose_batch_time: [batch, time, ...] to [time, batch, ...].
TransposeBatchTime(m) ==
    IF Len(m) = 0 THEN <<>>
    ELSE [t \in 1 .. Len(m[1]) |-> [b \in 1 .. Len(m) |-> m[b][t]]]

\* tf.argmax over the last axis: the indices holding a maximal entry (on a
\* tie tf.argmax does not say which one it returns).
ArgMaxBug(vec) == {0}
ArgMax(vec) ==
    {i \in 0 .. (Len(vec) - 1) : \A j \in 1 .. Len(vec) : vec[j] <= vec[i + 1]}

RECURSIVE SeqProduct(_)
SeqProduct(ss) ==
    IF Len(ss) = 0 THEN {<<>>}
    ELSE {<<h>> \o t : h \in Head(ss), t \in SeqProduct(Tail(ss))}

\* All the tensors tf.argmax(m, axis=-1) may return for a rank-3 tensor m.
ArgMaxLast(m) ==
    SeqProduct([r \in 1 .. Len(m) |->
                   SeqProduct([c \in 1 .. Len(m[r]) |-> ArgMax(m[r][c])])])

\* _create_position_embedding: the embedding of each position, zero past the
\* sequence length.
PositionTable(p) == 4 * (p + 1)
CreatePositionEmbedding(lengths, maxlen) ==
    [b \in 1 .. Len(lengths) |->
        [t \in 1 .. maxlen |-> IF t <= lengths[b] THEN PositionTable(t - 1) ELSE 0]]

\* The embedding of a token id (the caller's _embedding_fn).
Embedding(id) == 4 * (id + 1)

-----------------------------------------------------------------------------
(* Construction: __init__ stores its arguments. *)
Init ==
    /\ mode \in ModeKeys
    /\ params \in {u @@ default_params : u \in UserParams}
    /\ reverse_scores_lengths \in {<<>>, <<MaxTime>>}
    /\ called = ""
    /\ pc = "constructed"
    /\ err = ""
    /\ errLine = 0
    /\ ran = {}
    /\ args = <<>>
    /\ maximum_iterations = <<>>
    /\ labels = <<>>
    /\ inputs = <<>>
    /\ logits = <<>>
    /\ outputs = <<>>
    /\ result = <<>>
    /\ finished = <<>>
    /\ next_inputs = <<>>

selfVars == <<mode, params, reverse_scores_lengths>>
helperVars == <<finished, next_inputs>>

-----------------------------------------------------------------------------
(* _build, any mode but INFER (l.309-310, 313-314): the call of            *)
(* conv_decoder_train.                                                     *)
BuildTrain ==
    /\ pc = "constructed"
    /\ mode # INFER
    /\ called' = "_build"
    /\ \E lab \in [1 .. BatchSize -> LabelRows],
          len \in {MaxTime - 1, MaxTime},
          enc \in EncVals :
         args' = [labels |-> lab,
                  sequence_length |-> [b \in 1 .. BatchSize |-> len],
                  enc_output |-> [b \in 1 .. BatchSize |-> enc]]
    /\ labels' = args'.labels
    /\ maximum_iterations' = <<>>
    /\ ran' = ran \cup {"conv_decoder_train"}
    /\ pc' = "train_embed"
    /\ UNCHANGED <<selfVars, err, errLine, inputs, logits, outputs, result, helperVars>>

\* conv_decoder_train, l.152-159: the position embeddings are combined with
\* the labels only when enabled.
TrainEmbed ==
    /\ pc = "train_embed"
    /\ labels' =
         IF params["position_embeddings.enable"]
         THEN LET positions_embed ==
                      CreatePositionEmbedding(args.sequence_length, Len(labels[1]))
              IN [b \in 1 .. Len(labels) |->
                    [t \in 1 .. Len(labels[b]) |->
                        Combine(params["position_embeddings.combiner_fn"],
                                labels[b][t], positions_embed[b][t])]]
         ELSE labels
    /\ pc' = "train_dropout"
    /\ UNCHANGED <<selfVars, called, err, errLine, ran, args, maximum_iterations,
                   inputs, logits, outputs, result, helperVars>>

\* conv_decoder_train, l.162-165: dropout on the embeddings, in TRAIN only.
TrainDropout ==
    /\ pc = "train_dropout"
    /\ \E keep \in Masks(labels, mode = TRAIN) :
         inputs' = [b \in 1 .. Len(labels) |->
                      [t \in 1 .. Len(labels[b]) |->
                          Dropout(Rat(labels[b][t]), params["embedding_dropout_keep_prob"],
                                  mode = TRAIN, keep[b][t])]]
    /\ pc' = "train_cnn"
    /\ UNCHANGED <<selfVars, called, err, errLine, ran, args, maximum_iterations,
                   labels, logits, outputs, result, helperVars>>

\* conv_decoder_train, l.167-179: the convolution stack, entered only when
\* cnn.layers > 0, then the mapping to the output embedding size.
TrainHidden(x, enc) ==
    [b \in 1 .. Len(x) |->
        LET mapped == [t \in 1 .. Len(x[b]) |->
                          linear_mapping_before_cnn(x[b][t],
                                                    params["embedding_dropout_keep_prob"])]
        IN [t \in 1 .. Len(x[b]) |->
              linear_mapping_after_cnn(
                  IF params["cnn.layers"] > 0
                  THEN conv_decoder_stack(x[b], enc[b], mapped, t)
                  ELSE x[b][t])]]

\* conv_decoder_train, l.180-187: dropout on the hidden layer (in TRAIN
\* only), the mapping to the vocabulary, and time-major logits.
TrainLogits(hidden, keep) ==
    TransposeBatchTime(
        [b \in 1 .. Len(hidden) |->
            [t \in 1 .. Len(hidden[b]) |->
                logits_before_softmax(
                    Dropout(hidden[b][t], params["out_dropout_keep_prob"],
                            mode = TRAIN, keep[b][t]),
                    params["out_dropout_keep_prob"])]])

TrainCnn ==
    /\ pc = "train_cnn"
    /\ LET hidden == TrainHidden(inputs, args.enc_output)
       IN \E keep \in Masks(hidden, mode = TRAIN) : logits' = TrainLogits(hidden, keep)
    /\ pc' = "train_argmax"
    /\ UNCHANGED <<selfVars, called, err, errLine, ran, args, maximum_iterations,
                   labels, inputs, outputs, result, helperVars>>

\* conv_decoder_train, l.189-192; its locals end with the call.
TrainReturn ==
    /\ pc = "train_argmax"
    /\ \E sample_ids \in ArgMaxLast(logits) :
         outputs' = <<[logits |-> logits, predicted_ids |-> sample_ids]>>
    /\ labels' = <<>>
    /\ inputs' = <<>>
    /\ logits' = <<>>
    /\ pc' = "build_return"
    /\ UNCHANGED <<selfVars, called, err, errLine, ran, args, maximum_iterations,
                   result, helperVars>>

\* _build, l.315.
BuildReturn ==
    /\ pc = "build_return"
    /\ result' = <<outputs[1], outputs[1]>>
    /\ pc' = "done"
    /\ UNCHANGED <<selfVars, called, err, errLine, ran, args, maximum_iterations,
                   labels, inputs, logits, outputs, helperVars>>

\* The training path alone; it does not read reverse_scores_lengths.
InitTrain ==
    /\ Init
    /\ mode # INFER
    /\ reverse_scores_lengths = <<>>
NextTrain == BuildTrain \/ TrainEmbed \/ TrainDropout \/ TrainCnn \/ TrainReturn \/ BuildReturn
SpecTrain == InitTrain /\ [][NextTrain]_vars

-----------------------------------------------------------------------------
(* Inference. *)

\* _build in INFER mode, l.304-311: the lookup of max_decode_length, a key
\* params does not hold, raises before conv_decoder_infer is called.
BuildInfer ==
    /\ pc = "constructed"
    /\ mode = INFER
    /\ called' = "_build"
    /\ IF "max_decode_length" \notin DOMAIN params
       THEN /\ err' = "KeyError"
            /\ errLine' = 311
            /\ pc' = "error"
       ELSE UNCHANGED <<err, errLine, pc>>
    /\ UNCHANGED <<selfVars, ran, args, maximum_iterations, labels, inputs, logits,
                   outputs, result, helperVars>>

\* infer_conv_block, l.195-224: with cnn.layers > 0, l.211 reads the name
\* `inputs` (the parameter is input_embed); l.223 calls the list `shape`.
infer_conv_block(env) ==
    IF params["cnn.layers"] > 0 /\ "inputs" \notin env
    THEN [err |-> "NameError", line |-> 211]
    ELSE [err |-> "TypeError", line |-> 223]

\* step, l.256-269, called as a method: l.258 reads the name enc_output and
\* calls infer_conv_block, which raises.
Step ==
    /\ pc = "constructed"
    /\ called' = "step"
    /\ \E env \in SUBSET {"enc_output", "inputs"}, start \in Vocab :
         /\ args' = [time_ |-> 0,
                     inputs |-> [i \in Beams |-> <<Embedding(start)>>],
                     env |-> env]
         /\ LET r == IF "enc_output" \notin env
                     THEN [err |-> "NameError", line |-> 258]
                     ELSE infer_conv_block(env)
            IN err' = r.err /\ errLine' = r.line
    /\ pc' = "error"
    /\ UNCHANGED <<selfVars, ran, maximum_iterations, labels, inputs, logits,
                   outputs, result, helperVars>>

\* next_inputs, l.244-252.  env holds the names bound when it is called;
\* tf cond builds both branches.
NextInputs(env, sample_ids, end_token, start_inputs) ==
    LET fin == [i \in 1 .. Len(sample_ids) |-> sample_ids[i] = end_token]
        all_finished == \A i \in 1 .. Len(fin) : fin[i]
    IN IF "_end_token" \notin env THEN [err |-> "AttributeError", line |-> 245]
       ELSE IF "control_flow_ops" \notin env THEN [err |-> "NameError", line |-> 247]
       ELSE IF "_start_inputs" \notin env THEN [err |-> "AttributeError", line |-> 250]
       ELSE IF "_embedding_fn" \notin env THEN [err |-> "AttributeError", line |-> 251]
       ELSE [err |-> "", line |-> 0,
             finished |-> fin,
             next_inputs |-> IF all_finished THEN start_inputs
                             ELSE [i \in 1 .. Len(sample_ids) |-> Embedding(sample_ids[i])]]

\* next_inputs called as a method of the decoder as constructed: the file
\* assigns none of the attributes it reads and does not import
\* control_flow_ops, so no name of env is bound.
CallNextInputs ==
    /\ pc = "constructed"
    /\ called' = "next_inputs"
    /\ \E ids \in [Beams -> Vocab] :
         args' = [time |-> 0, sample_ids |-> ids]
    /\ LET r == NextInputs({}, args'.sample_ids, vocab_size - 1, <<>>)
       IN IF r.err = ""
          THEN /\ finished' = r.finished
               /\ next_inputs' = r.next_inputs
               /\ pc' = "next_inputs_done"
               /\ UNCHANGED <<err, errLine>>
          ELSE /\ err' = r.err
               /\ errLine' = r.line
               /\ pc' = "error"
               /\ UNCHANGED <<finished, next_inputs>>
    /\ UNCHANGED <<selfVars, ran, maximum_iterations, labels, inputs, logits,
                   outputs, result>>

Next ==
    \/ BuildTrain \/ TrainEmbed \/ TrainDropout \/ TrainCnn \/ TrainReturn
    \/ BuildReturn \/ BuildInfer \/ Step \/ CallNextInputs

Spec == Init /\ [][Next]_vars

-----------------------------------------------------------------------------
(* The documented behaviour, stated on the model. *)

\* C1: once _build has been called, it has entered conv_decoder_infer and
\* never conv_decoder_train when the mode is INFER, and conv_decoder_train
\* and never conv_decoder_infer in every other mode; what it returns is a
\* pair of twice the same decoder output.
C1_BuildSelectsByMode ==
    /\ called = "_build" =>
         ran = (IF mode = INFER THEN {"conv_decoder_infer"} ELSE {"conv_decoder_train"})
    /\ pc = "done" => Len(result) = 2 /\ result[1] = result[2] /\ result[1] = outputs[1]

\* The decoder inputs teacher forcing gives: the label embeddings, combined
\* with the position embeddings when those are enabled.
ExpectedTrainInputs ==
    [b \in 1 .. Len(args.labels) |->
        [t \in 1 .. Len(args.labels[b]) |->
            IF params["position_embeddings.enable"]
            THEN LET pos == IF t <= args.sequence_length[b] THEN PositionTable(t - 1) ELSE 0
                 IN IF params["position_embeddings.combiner_fn"] = "tensorflow.add"
                    THEN args.labels[b][t] + pos
                    ELSE args.labels[b][t] * pos
            ELSE args.labels[b][t]]]

\* C2: in training the decoder inputs are built from the given label
\* embeddings only (each input is the embedded label of its position, or
\* that value dropped or scaled by dropout), the logits hold one
\* vocabulary-sized vector per time step of the labels and per batch element,
\* time-major, and each predicted id is a vocabulary index whose logit is
\* maximal at its position.
C2_TrainTeacherForced ==
    /\ (called = "_build" /\ pc \in {"train_cnn", "train_argmax"}) =>
         /\ Len(inputs) = Len(args.labels)
         /\ \A b \in 1 .. Len(inputs) :
              /\ Len(inputs[b]) = Len(args.labels[b])
              /\ \A t \in 1 .. Len(inputs[b]) :
                   inputs[b][t] \in
                     (IF mode = TRAIN
                      THEN {Rat(0), Norm(ExpectedTrainInputs[b][t] * 5, 4)}
                      ELSE {Rat(ExpectedTrainInputs[b][t])})
    /\ (called = "_build" /\ pc \in {"build_return", "done"}) =>
         LET o == outputs[1]
         IN /\ Len(o.logits) = Len(args.labels[1])
            /\ Len(o.predicted_ids) = Len(args.labels[1])
            /\ \A t \in 1 .. Len(o.logits) :
                 /\ Len(o.logits[t]) = Len(args.labels)
                 /\ Len(o.predicted_ids[t]) = Len(args.labels)
                 /\ \A b \in 1 .. Len(o.logits[t]) :
                      /\ Len(o.logits[t][b]) = vocab_size
                      /\ o.predicted_ids[t][b] \in 0 .. (vocab_size - 1)
                      /\ \A v \in 1 .. vocab_size :
                           o.logits[t][b][v] <= o.logits[t][b][o.predicted_ids[t][b] + 1]

\* A TRAIN run that returned logits for every time step of the labels, not
\* the same at every step, with a predicted id other than 0.
C2_Witness ==
    /\ pc = "done"
    /\ mode = TRAIN
    /\ Len(outputs[1].logits) = MaxTime
    /\ \E t, u \in 1 .. Len(outputs[1].logits) : outputs[1].logits[t] # outputs[1].logits[u]
    /\ \E t \in 1 .. Len(outputs[1].predicted_ids) :
         \E b \in 1 .. Len(outputs[1].predicted_ids[t]) : outputs[1].predicted_ids[t][b] # 0

\* C3: in INFER mode a call of _build yields a decoder output that carries
\* predicted ids (those of the beam search).
C3_InferReturnsBeamIds ==
    (called = "_build" /\ mode = INFER) =>
        (outputs # <<>> /\ "predicted_ids" \in DOMAIN outputs[1])

\* C4: when reverse_scores_lengths is set, the decoder output carries the
\* attention scores (which are then the reversed ones).
C4_ScoresReversedWhenSet ==
    (reverse_scores_lengths # <<>> /\ outputs # <<>>) =>
        "attention_scores" \in DOMAIN outputs[1]

\* C5: a call of next_inputs returns; it marks beam entry i finished
\* exactly when sample_ids[i] is the end token, and the next inputs are the
\* start inputs when every entry is finished and the embeddings of
\* sample_ids otherwise.
C5_NextInputsElementwise ==
    called = "next_inputs" =>
        /\ pc = "next_inputs_done"
        /\ Len(finished) = Len(args.sample_ids)
        /\ \A i \in 1 .. Len(finished) :
             finished[i] <=> (args.sample_ids[i] = vocab_size - 1)
        /\ (\E i \in 1 .. Len(finished) : ~finished[i])
             => next_inputs = [i \in 1 .. Len(args.sample_ids) |->
                                 Embedding(args.sample_ids[i])]

\* C6: a decoding step, once called, carries out its operations (logits
\* from infer_conv_block, then beam_search_step, then the next inputs) and
\* does not end in an exception.
C6_StateThreaded ==
    called = "step" => pc # "error"

\* C7: position embeddings enter the decoder input only when
\* position_embeddings.enable is true: the training input is combiner_fn of
\* label and position embeddings when it is true and the bare label
\* embeddings when it is false, and in INFER mode an initial decoder input
\* is built either way.
C7_PositionsOnlyWhenEnabled ==
    /\ (called = "_build" /\ pc = "train_dropout") => labels = ExpectedTrainInputs
    /\ (called = "_build" /\ mode = INFER) => inputs # <<>>

\* C8: in INFER mode _build obtains the limit of the decoding loop,
\* max_decode_length, from the decoder's parameters.
C8_LoopStops ==
    (called = "_build" /\ mode = INFER) =>
        /\ errLine # 311
        /\ maximum_iterations = <<params["max_decode_length"]>>

=============================================================================
